---- MODULE Spec2Model ----
(***************************************************************************)
(* Model of the two report generators of discord-message-analyzer:         *)
(*   src/discord_analyser.py  DiscordMessageAnalyzer  ("analyzer")         *)
(*   src/dirvine_digest.py    DirvineDigestGenerator  ("digest")           *)
(* A run reads the export files of a directory one after the other,        *)
(* collects the messages by or replying to the target user, and renders    *)
(* the collected entries.                                                  *)
(*                                                                         *)
(* Conventions.  An optional JSON field (dict.get, "key in dict", None) is *)
(* a set with at most one element: {} is absent, {v} is present with value *)
(* v.  A string that the code inspects character by character (a user      *)
(* name) is a sequence of one-character strings.                           *)
(***************************************************************************)
EXTENDS Integers, Sequences, FiniteSets, TLC

VARIABLES
    variant,                \* "analyzer" | "digest": which script runs
    target_username,        \* self.target_username
    target_discriminator,   \* self.target_discriminator (optional)
    days,                   \* the --days argument of the digest
    dir,                    \* the export files found by rglob, in scan order
    cursor,                 \* index in dir of the next file to process
    pc,                     \* position in main()
    error,                  \* the unhandled exception that ended the run, or "none"
    results,                \* analyzer: channel identifier -> list of entries
    stats,                  \* analyzer: the four counters
    all_messages,           \* digest: list of entries
    messages_by_date,       \* digest: date -> list of entries
    report,                 \* analyzer: the written report (optional)
    archive,                \* digest: the written complete archive (optional)
    weekly,                 \* digest: the written weekly digest (optional)
    probe,                  \* an author dictionary handed to the matchers
    verdict,                \* the matchers' answers for probe (optional)
    previous                \* what the earlier runs of main() ended with

vars == <<variant, target_username, target_discriminator, days, dir, cursor, pc,
          error, results, stats, all_messages, messages_by_date, report, archive,
          weekly, probe, verdict,
          previous>>

----------------------------------------------------------------------------
(* Optional values                                                         *)

None == {}

Some(v) == {v}

\* dict.get(key, default)
Get(opt, default) == IF opt = {} THEN default ELSE CHOOSE v \in opt : TRUE

----------------------------------------------------------------------------
(* Strings and str.lower()                                                 *)

\* the characters user names are drawn from: two letters in both cases, one
\* character without case
Alphabet == {"d", "D", "a", "A", "."}

\* the lower-case form of each character
LowerOf == [c \in Alphabet |->
              CASE c = "D" -> "d"
                [] c = "A" -> "a"
                [] OTHER   -> c]

\* str.lower()
Lower(s) == [i \in DOMAIN s |-> LowerOf[s[i]]]

\* the (upper, lower) pairs of the alphabet, stated on their own
CasePairs == {{"d", "D"}, {"a", "A"}}

\* two strings are the same up to the case of their letters
EqualUpToCase(s, t) ==
    /\ Len(s) = Len(t)
    /\ \A i \in 1..Len(s) : s[i] = t[i] \/ {s[i], t[i]} \in CasePairs

\* "dirvine." (abbreviated to its first and last character), and another user
Dirvine == <<"d", ".">>

DirvineCaps == <<"D", ".">>

Alice == <<"a">>

----------------------------------------------------------------------------
(* The matchers                                                            *)

\* a discriminator filter is applied only when it is truthy (not None, not "")
Truthy(opt) == opt # {} /\ opt # {""}

\* DiscordMessageAnalyzer.__init__: the stored target name
InitTargetUsername(raw) == Lower(raw)

\* a variant that compares the author's name as the export spells it
matches_target_user_NoLower(author) ==
    LET author_name == Get(author.name, <<>>)
        author_discriminator == Get(author.discriminator, "0000")
    IN  IF author_name # target_username THEN FALSE
        ELSE IF Truthy(target_discriminator)
                /\ author_discriminator # Get(target_discriminator, "")
             THEN FALSE
             ELSE TRUE

\* a variant that never looks at the discriminator
matches_target_user_AnyDiscriminator(author) ==
    Lower(Get(author.name, <<>>)) = target_username

\* DiscordMessageAnalyzer.matches_target_user
matches_target_user(author) ==
    LET author_name == Lower(Get(author.name, <<>>))
        author_discriminator == Get(author.discriminator, "0000")
    IN  IF author_name # target_username THEN FALSE
        ELSE IF Truthy(target_discriminator)
                /\ author_discriminator # Get(target_discriminator, "")
             THEN FALSE
             ELSE TRUE

\* DirvineDigestGenerator._process_file: author.get('name', '').lower() == self.target_username
is_dirvine(author) == Lower(Get(author.name, <<>>)) = target_username

----------------------------------------------------------------------------
(* Timestamps, datetimes and sorting                                       *)

\* the run's current time, datetime.now(): a naive datetime (no tzinfo)
Now == [aware |-> FALSE, day |-> 10, sec |-> 5]

\* A timestamp string of an export is one of three forms:
\*   "Z"      ISO-8601 with the 'Z' suffix       2025-01-01T00:00:00Z
\*   "naive"  ISO-8601 without any UTC offset    2025-01-01T00:00:00
\*   "bad"    not ISO-8601                       not-a-date
TsZ(day, sec) == [form |-> "Z", day |-> day, sec |-> sec]

TsNaive(day, sec) == [form |-> "naive", day |-> day, sec |-> sec]

TsBad == [form |-> "bad", day |-> 0, sec |-> 0]

\* datetime.fromisoformat(timestamp.replace('Z', '+00:00')); {} when it raises:
\* AttributeError for a missing timestamp (None.replace), ValueError for a
\* string that is not ISO-8601
ParseTimestamp(timestamp) ==
    IF timestamp = None THEN None
    ELSE LET ts == Get(timestamp, TsBad)
         IN  CASE ts.form = "Z"     -> Some([aware |-> TRUE, day |-> ts.day, sec |-> ts.sec])
               [] ts.form = "naive" -> Some([aware |-> FALSE, day |-> ts.day, sec |-> ts.sec])
               [] OTHER             -> None

\* a variant that compares the time of day only
DtLess_TimeOfDay(a, b) == a.sec < b.sec

\* datetime.__lt__ on two datetimes of the same awareness
DtLess(a, b) == a.day < b.day \/ (a.day = b.day /\ a.sec < b.sec)

\* comparing an offset-naive with an offset-aware datetime raises TypeError; a
\* sort of a list holding both kinds compares two of them before it ends
SortRaises(seq) ==
    \E i, j \in 1..Len(seq) : seq[i].datetime.aware # seq[j].datetime.aware

RECURSIVE InsertByDatetime_Unstable(_, _)
\* a variant that puts e before the elements equal to it
InsertByDatetime_Unstable(sorted, e) ==
    IF sorted = <<>> THEN <<e>>
    ELSE IF ~DtLess(sorted[Len(sorted)].datetime, e.datetime)
         THEN Append(InsertByDatetime_Unstable(SubSeq(sorted, 1, Len(sorted) - 1), e),
                     sorted[Len(sorted)])
         ELSE Append(sorted, e)

RECURSIVE InsertByDatetime_Unique(_, _)
\* a variant that keeps one element of each datetime
InsertByDatetime_Unique(sorted, e) ==
    IF sorted = <<>> THEN <<e>>
    ELSE IF DtLess(e.datetime, sorted[Len(sorted)].datetime)
         THEN Append(InsertByDatetime_Unique(SubSeq(sorted, 1, Len(sorted) - 1), e),
                     sorted[Len(sorted)])
         ELSE IF DtLess(sorted[Len(sorted)].datetime, e.datetime)
              THEN Append(sorted, e)
              ELSE sorted

RECURSIVE InsertByDatetime(_, _)
\* one step of a stable sort: e goes after every element that is not greater
InsertByDatetime(sorted, e) ==
    IF sorted = <<>> THEN <<e>>
    ELSE IF DtLess(e.datetime, sorted[Len(sorted)].datetime)
         THEN Append(InsertByDatetime(SubSeq(sorted, 1, Len(sorted) - 1), e),
                     sorted[Len(sorted)])
         ELSE Append(sorted, e)

RECURSIVE SortByDatetime(_)
\* sorted(seq, key=lambda x: x['datetime']) and list.sort(key=...): stable
SortByDatetime(seq) ==
    IF seq = <<>> THEN <<>>
    ELSE InsertByDatetime(SortByDatetime(SubSeq(seq, 1, Len(seq) - 1)), seq[Len(seq)])

\* the orders a list can be left in: every arrangement of its elements
Arrangements(seq) ==
    {[i \in 1..Len(seq) |-> seq[p[i]]] :
        p \in {q \in [1..Len(seq) -> 1..Len(seq)] :
                 \A i, j \in 1..Len(seq) : i # j => q[i] # q[j]}}

----------------------------------------------------------------------------
(* Export files                                                            *)
(* A file is [kind, channel_id, channel_name, messages].  kind is          *)
(*   "unreadable"  open() raises                                           *)
(*   "badjson"     json.load raises JSONDecodeError                        *)
(*   "nonobject"   the JSON parses, its top level is not an object         *)
(*   "object"      the JSON parses to an object                            *)
(* A message is [id, author, timestamp, reference]; the id of a message is *)
(* its position in the file, so ids are unique within a file.              *)

\* the most files in a directory
MaxFiles == 2

\* the most messages in a directory, over all its files
MaxMsgs == 3

Author(name, discriminator) == [name |-> name, discriminator |-> discriminator]

\* "sorted(self.results.keys())": the channel identifiers in alphabetical order
ChannelOrder == <<"dev", "general">>

ChannelRank(name) == CHOOSE i \in 1..Len(ChannelOrder) : ChannelOrder[i] = name

\* the shape of a file: its kind, its channel name and its number of messages
FileShapes(names, kinds) ==
    {[kind |-> k, channel_name |-> "general", count |-> 0] : k \in kinds \ {"object"}}
    \cup {[kind |-> "object", channel_name |-> c, count |-> n] : c \in names, n \in 0..MaxMsgs}

\* the number of messages of the first i files of a shape
MsgsBefore(shape, i) ==
    LET RECURSIVE Sum(_)
        Sum(j) == IF j = 0 THEN 0 ELSE Sum(j - 1) + shape[j].count
    IN  Sum(i)

\* the shapes of the directories of at most MaxFiles files and MaxMsgs messages
DirShapes(names, kinds) ==
    UNION {{shape \in [1..n -> FileShapes(names, kinds)] : MsgsBefore(shape, n) <= MaxMsgs} :
           n \in 0..MaxFiles}

\* the directory of a shape whose messages are, file after file, those of
\* bodies; the channel id of a file is its rank in the directory, the id of a
\* message its rank in the file
MakeDir(shape, bodies) ==
    [i \in 1..Len(shape) |->
        [kind         |-> shape[i].kind,
         channel_id   |-> i,
         channel_name |-> shape[i].channel_name,
         messages     |-> [j \in 1..shape[i].count |->
                             LET body == bodies[MsgsBefore(shape, i - 1) + j]
                             IN  [id        |-> j,
                                  author    |-> body.author,
                                  timestamp |-> body.timestamp,
                                  reference |-> body.reference]]]]

AllKinds == {"unreadable", "badjson", "nonobject", "object"}

\* the target as the exports spell it ("D.", with a discriminator), and another user
TargetAuthor == Author(Some(DirvineCaps), Some("1234"))

OtherAuthor == Author(Some(Alice), Some("1234"))

\* a well-formed timestamp of the day of the run
TsToday == TsZ(Now.day, 0)

\* messages by the target or by another user, with or without a reply
\* reference to the first or the second message of a file
CorrelationBodies ==
    [author : {TargetAuthor, OtherAuthor},
     timestamp : {Some(TsToday)},
     reference : {None, Some(1), Some(2)}]

\* bodies with the timestamp of the k-th of them malformed (of none when k = 0)
WithMalformed(bodies, k) ==
    [i \in DOMAIN bodies |-> IF i = k THEN [bodies[i] EXCEPT !.timestamp = Some(TsBad)]
                             ELSE bodies[i]]

\* messages of files that may be unreadable or be no export at all; a
\* timestamp may lack the 'Z' suffix or be missing
ErrorBodies ==
    [author : {TargetAuthor, OtherAuthor},
     timestamp : {Some(TsToday), Some(TsNaive(Now.day, 0)), None},
     reference : {None, Some(1)}]

\* messages by the target or by another user, dated before a window of n days
\* or the day of the run, with or without a reply reference to the first
\* message of a file
QuietBodies(n) ==
    [author : {TargetAuthor, OtherAuthor},
     timestamp : {Some(TsZ(Now.day - n - 1, 0)), Some(TsToday)},
     reference : {None, Some(1)}]

\* a reply of another user to the first message of a file
ReplyBody == [author |-> OtherAuthor, timestamp |-> Some(TsToday), reference |-> Some(1)]

\* messages of the target that differ in their timestamp only: n + 1 days
\* before the run, n days before it at a later time of day, the day of the
\* run, or malformed
TimelineBodies(n) ==
    [author : {TargetAuthor},
     timestamp : {Some(TsZ(Now.day - n - 1, 0)), Some(TsZ(Now.day - n, 1)),
                  Some(TsToday), Some(TsBad)},
     reference : {None}]

----------------------------------------------------------------------------
(* The analyzer: DiscordMessageAnalyzer                                    *)

\* DiscordMessageAnalyzer.__init__: the counters
InitStats == [files_processed |-> 0, total_messages |-> 0,
              posts_by_user |-> 0, replies_to_user |-> 0]

\* extract_from_file, first pass: the ids of the messages by the target
TargetMessageIds(messages) ==
    {messages[i].id : i \in {j \in 1..Len(messages) : matches_target_user(messages[j].author)}}

\* extract_from_file: the entry built for a message, before its type is set;
\* a timestamp that does not parse falls back to datetime.now()
AnalyzerEntry(f, message) ==
    [message_id  |-> message.id,
     timestamp   |-> message.timestamp,
     datetime    |-> Get(ParseTimestamp(message.timestamp), Now),
     author      |-> message.author.name,
     channel     |-> f.channel_name,
     channel_id  |-> f.channel_id,
     type        |-> "",
     replying_to |-> None]

\* a variant that takes any reply for a reply to the target
IsReplyTo_AnyReference(message, ids) == message.reference # None

\* a variant that knows only the target's messages read so far (a single pass)
IsReplyTo_SinglePass(message, ids) ==
    /\ message.reference # None
    /\ Get(message.reference, 0) \in ids
    /\ Get(message.reference, 0) < message.id

\* is_reply_to_target: 'reference' in message and its messageId in target_message_ids
IsReplyTo(message, ids) ==
    message.reference # None /\ Get(message.reference, 0) \in ids

RECURSIVE AnalyzerSecondPass_TwoIfs(_, _, _)
\* a variant whose second test is an "if", not an "elif"
AnalyzerSecondPass_TwoIfs(f, ids, n) ==
    IF n = 0 THEN [entries |-> <<>>, posts |-> 0, replies |-> 0, total |-> 0]
    ELSE LET acc     == AnalyzerSecondPass_TwoIfs(f, ids, n - 1)
             message == f.messages[n]
             entry   == AnalyzerEntry(f, message)
             posted  == IF matches_target_user(message.author)
                        THEN <<[entry EXCEPT !.type = "posted_by_target",
                                             !.replying_to = message.reference]>>
                        ELSE <<>>
             replied == IF IsReplyTo(message, ids)
                        THEN <<[entry EXCEPT !.type = "reply_to_target",
                                             !.replying_to = message.reference]>>
                        ELSE <<>>
         IN  [entries |-> acc.entries \o posted \o replied,
              posts   |-> acc.posts + Len(posted),
              replies |-> acc.replies + Len(replied),
              total   |-> acc.total + Len(posted) + Len(replied)]

RECURSIVE AnalyzerSecondPass(_, _, _)
\* extract_from_file, second pass over the first n messages: the entries
\* appended to results[channel_identifier] and the increments of the counters
AnalyzerSecondPass(f, ids, n) ==
    IF n = 0 THEN [entries |-> <<>>, posts |-> 0, replies |-> 0, total |-> 0]
    ELSE LET acc            == AnalyzerSecondPass(f, ids, n - 1)
             message        == f.messages[n]
             entry          == AnalyzerEntry(f, message)
             is_by_target   == matches_target_user(message.author)
             is_reply_to_target == IsReplyTo(message, ids)
         IN  IF is_by_target
             THEN [entries |-> Append(acc.entries,
                                      [entry EXCEPT !.type = "posted_by_target",
                                                    !.replying_to = message.reference]),
                   posts   |-> acc.posts + 1,
                   replies |-> acc.replies,
                   total   |-> acc.total + 1]
             ELSE IF is_reply_to_target
             THEN [entries |-> Append(acc.entries,
                                      [entry EXCEPT !.type = "reply_to_target",
                                                    !.replying_to = message.reference]),
                   posts   |-> acc.posts,
                   replies |-> acc.replies + 1,
                   total   |-> acc.total + 1]
             ELSE acc

\* a variant that creates the key of a file before it looks at its messages
AppendAll_AlwaysKey(table, key, entries) ==
    [k \in DOMAIN table \cup {key} |->
        IF k = key
        THEN (IF key \in DOMAIN table THEN table[key] ELSE <<>>) \o entries
        ELSE table[k]]

\* results[key].append(...) for each entry; a defaultdict creates the key on
\* the first append, so a file without entries adds no key
AppendAll(table, key, entries) ==
    IF entries = <<>> THEN table
    ELSE [k \in DOMAIN table \cup {key} |->
            IF k = key
            THEN (IF key \in DOMAIN table THEN table[key] ELSE <<>>) \o entries
            ELSE table[k]]

\* DiscordMessageAnalyzer.extract_from_file, called by process_directory for
\* the next file of the scan
ExtractFromFile ==
    /\ variant = "analyzer"
    /\ pc = "run"
    /\ cursor <= Len(dir)
    /\ LET f == dir[cursor]
       IN  CASE f.kind \in {"unreadable", "badjson"} ->
                  \* both except clauses print and return
                  /\ cursor' = cursor + 1
                  /\ UNCHANGED <<pc, error, results, stats>>
             [] f.kind = "nonobject" ->
                  \* data.get(...) outside the try: AttributeError, not caught
                  /\ pc' = "aborted"
                  /\ error' = "AttributeError"
                  /\ UNCHANGED <<cursor, results, stats>>
             [] OTHER ->
                  LET ids  == TargetMessageIds(f.messages)
                      pass == AnalyzerSecondPass(f, ids, Len(f.messages))
                  IN  /\ results' = AppendAll(results, f.channel_name, pass.entries)
                      /\ stats' = [files_processed |-> stats.files_processed + 1,
                                   total_messages  |-> stats.total_messages + pass.total,
                                   posts_by_user   |-> stats.posts_by_user + pass.posts,
                                   replies_to_user |-> stats.replies_to_user + pass.replies]
                      /\ cursor' = cursor + 1
                      /\ UNCHANGED <<pc, error>>
    /\ UNCHANGED <<variant, target_username, target_discriminator, days, dir,
                   all_messages, messages_by_date, report, archive, weekly,
                   probe, verdict,
                   previous>>

\* sorted(self.results.keys())
SortedChannels(table) ==
    LET keys == DOMAIN table
        RECURSIVE Take(_)
        Take(i) == IF i > Len(ChannelOrder) THEN <<>>
                   ELSE (IF ChannelOrder[i] \in keys THEN <<ChannelOrder[i]>> ELSE <<>>)
                        \o Take(i + 1)
    IN  Take(1)

\* DiscordMessageAnalyzer.generate_report, called after process_directory.
\* Each channel's list is sorted in place and written.  A list that holds an
\* offset-naive and an offset-aware datetime makes list.sort raise TypeError:
\* the lists of the channels before it are sorted and written, its own list is
\* left in some order, and the run ends.
GenerateReport ==
    /\ variant = "analyzer"
    /\ pc = "run"
    /\ cursor > Len(dir)
    /\ IF DOMAIN results = {}
       THEN \* "No messages found for the specified user.": nothing is written
            /\ pc' = "done"
            /\ UNCHANGED <<results, report, error>>
       ELSE LET order  == SortedChannels(results)
                failAt == {i \in 1..Len(order) : SortRaises(results[order[i]])}
                first  == IF failAt = {} THEN Len(order) + 1
                          ELSE CHOOSE i \in failAt : \A j \in failAt : i <= j
                group(i) == [channel  |-> order[i],
                             messages |-> SortByDatetime(results[order[i]])]
            IN  IF failAt = {}
                THEN /\ results' = [k \in DOMAIN results |-> SortByDatetime(results[k])]
                     /\ report' = Some([complete |-> TRUE,
                                        groups   |-> [i \in 1..Len(order) |-> group(i)]])
                     /\ pc' = "done"
                     /\ UNCHANGED error
                ELSE /\ \E left \in Arrangements(results[order[first]]) :
                          results' = [k \in DOMAIN results |->
                                        IF ChannelRank(k) < ChannelRank(order[first])
                                        THEN SortByDatetime(results[k])
                                        ELSE IF k = order[first] THEN left
                                        ELSE results[k]]
                     /\ report' = Some([complete |-> FALSE,
                                        groups   |-> [i \in 1..(first - 1) |-> group(i)]])
                     /\ pc' = "aborted"
                     /\ error' = "TypeError"
    /\ UNCHANGED <<variant, target_username, target_discriminator, days, dir, cursor,
                   stats, all_messages, messages_by_date, archive, weekly,
                   probe, verdict,
                   previous>>

----------------------------------------------------------------------------
(* The digest: DirvineDigestGenerator                                      *)

\* the default of generate_weekly_digest(days=...) and of --days
DefaultDays == 7

\* _process_file, first loop: the ids of dirvine's messages
DirvineMessageIds(messages) ==
    {messages[i].id : i \in {j \in 1..Len(messages) : is_dirvine(messages[j].author)}}

\* a variant that takes the first message of the file for the original
FindMessage_First(messages, ref_id) ==
    IF messages = <<>> THEN None ELSE Some(messages[1])

\* next((m for m in messages if m.get('id') == ref_id), None)
FindMessage(messages, ref_id) ==
    LET hits == {i \in 1..Len(messages) : messages[i].id = ref_id}
    IN  IF hits = {} THEN None
        ELSE Some(messages[CHOOSE i \in hits : \A j \in hits : i <= j])

RECURSIVE DigestSecondLoop(_, _, _)
\* _process_file, second loop over the first n messages: the entries appended
\* to all_messages; a message whose timestamp does not parse is skipped
DigestSecondLoop(f, ids, n) ==
    IF n = 0 THEN <<>>
    ELSE LET acc    == DigestSecondLoop(f, ids, n - 1)
             msg    == f.messages[n]
             parsed == ParseTimestamp(msg.timestamp)
             dt     == Get(parsed, Now)
             is_dirvine_post     == is_dirvine(msg.author)
             is_reply_to_dirvine == IsReplyTo(msg, ids)
             replied_to_msg      == IF is_reply_to_dirvine
                                    THEN FindMessage(f.messages, Get(msg.reference, 0))
                                    ELSE None
         IN  IF parsed = None THEN acc
             ELSE IF is_dirvine_post \/ is_reply_to_dirvine
             THEN Append(acc, [datetime            |-> dt,
                               date                |-> dt.day,
                               channel             |-> f.channel_name,
                               author              |-> msg.author.name,
                               is_dirvine          |-> is_dirvine_post,
                               is_reply_to_dirvine |-> is_reply_to_dirvine,
                               replied_to_msg      |-> replied_to_msg,
                               channel_id          |-> f.channel_id,
                               message_id          |-> msg.id])
             ELSE acc

RECURSIVE AppendByDate(_, _)
\* self.messages_by_date[dt.date()].append(entry), entry after entry
AppendByDate(table, entries) ==
    IF entries = <<>> THEN table
    ELSE AppendByDate(AppendAll(table, entries[1].date, <<entries[1]>>),
                      SubSeq(entries, 2, Len(entries)))

\* DirvineDigestGenerator._process_file, called by process_exports for the
\* next file of the scan
ProcessFile ==
    /\ variant = "digest"
    /\ pc = "run"
    /\ cursor <= Len(dir)
    /\ LET f == dir[cursor]
       IN  CASE f.kind \in {"unreadable", "badjson"} ->
                  \* except Exception: print and return
                  /\ cursor' = cursor + 1
                  /\ UNCHANGED <<pc, error, all_messages, messages_by_date>>
             [] f.kind = "nonobject" ->
                  \* data.get(...) outside the try: AttributeError, not caught
                  /\ pc' = "aborted"
                  /\ error' = "AttributeError"
                  /\ UNCHANGED <<cursor, all_messages, messages_by_date>>
             [] OTHER ->
                  LET ids     == DirvineMessageIds(f.messages)
                      entries == DigestSecondLoop(f, ids, Len(f.messages))
                  IN  /\ all_messages' = all_messages \o entries
                      /\ messages_by_date' = AppendByDate(messages_by_date, entries)
                      /\ cursor' = cursor + 1
                      /\ UNCHANGED <<pc, error>>
    /\ UNCHANGED <<variant, target_username, target_discriminator, days, dir,
                   results, stats, report, archive, weekly, probe, verdict,
                   previous>>

\* replied_to.get('author', {}).get('name', 'Unknown')
Unknown == <<"?">>

\* DirvineDigestGenerator._write_message: what is written for an entry of a
\* report: the header after the channel and the time, and the quoted context
\* before the content (its label, the author it names, and the message whose
\* content it quotes)
WriteMessage(msg) ==
    IF msg.is_dirvine
    THEN [header |-> "said",
          quote  |-> IF msg.replied_to_msg # None
                     THEN LET replied_to == Get(msg.replied_to_msg, <<>>)
                          IN  Some([label   |-> "Replying to",
                                    author  |-> Get(replied_to.author.name, Unknown),
                                    content |-> replied_to])
                     ELSE None]
    ELSE IF msg.is_reply_to_dirvine
    THEN [header |-> "replied to dirvine",
          quote  |-> IF msg.replied_to_msg # None
                     THEN Some([label   |-> "dirvine said",
                                author  |-> Dirvine,
                                content |-> Get(msg.replied_to_msg, <<>>)])
                     ELSE None]
    ELSE [header |-> "", quote |-> None]

\* DirvineDigestGenerator.generate_complete_archive, called after
\* process_exports; sorted() builds a new list and raises TypeError before the
\* output file is opened when the datetimes cannot be compared
GenerateCompleteArchive ==
    /\ variant = "digest"
    /\ pc = "run"
    /\ cursor > Len(dir)
    /\ IF all_messages = <<>>
       THEN \* "No messages found for dirvine.": nothing is written
            /\ pc' = "weekly"
            /\ UNCHANGED <<archive, error>>
       ELSE IF SortRaises(all_messages)
       THEN /\ pc' = "aborted"
            /\ error' = "TypeError"
            /\ UNCHANGED archive
       ELSE /\ archive' = Some(SortByDatetime(all_messages))
            /\ pc' = "weekly"
            /\ UNCHANGED error
    /\ UNCHANGED <<variant, target_username, target_discriminator, days, dir, cursor,
                   results, stats, all_messages, messages_by_date, report, weekly,
                   probe, verdict,
                   previous>>

\* cutoff_date = datetime.now().date() - timedelta(days=days)
CutoffDate(n) == Now.day - n

\* a variant whose boundary is exclusive
RecentMessages_Exclusive(messages, n) ==
    SelectSeq(messages, LAMBDA msg : msg.date > CutoffDate(n))

\* [msg for msg in self.all_messages if msg['date'] >= cutoff_date]
RecentMessages(messages, n) == SelectSeq(messages, LAMBDA msg : msg.date >= CutoffDate(n))

\* DirvineDigestGenerator.generate_weekly_digest, called after
\* generate_complete_archive
GenerateWeeklyDigest ==
    /\ variant = "digest"
    /\ pc = "weekly"
    /\ LET recent_messages == RecentMessages(all_messages, days)
       IN  IF recent_messages = <<>>
           THEN \* "No messages found in the last N days.": nothing is written
                /\ pc' = "done"
                /\ UNCHANGED <<weekly, error>>
           ELSE IF SortRaises(recent_messages)
           THEN /\ pc' = "aborted"
                /\ error' = "TypeError"
                /\ UNCHANGED weekly
           ELSE /\ weekly' = Some(SortByDatetime(recent_messages))
                /\ pc' = "done"
                /\ UNCHANGED error
    /\ UNCHANGED <<variant, target_username, target_discriminator, days, dir, cursor,
                   results, stats, all_messages, messages_by_date, report, archive,
                   probe, verdict,
                   previous>>

----------------------------------------------------------------------------
(* Running the script again                                                *)

\* the most runs of main() over a directory
MaxRuns == 2

\* what a run ended with: the output files and the unhandled exception
Outcome == [report |-> report, archive |-> archive, weekly |-> weekly, error |-> error]

\* a variant that processes the directory again with the objects of the run
\* before
Rerun_SameObject ==
    /\ pc \in {"done", "aborted"}
    /\ Len(previous) + 1 < MaxRuns
    /\ previous' = Append(previous, Outcome)
    /\ cursor' = 1
    /\ pc' = "run"
    /\ error' = "none"
    /\ UNCHANGED <<variant, target_username, target_discriminator, days, dir,
                   results, stats, all_messages, messages_by_date,
                   report, archive, weekly, probe, verdict>>

\* main() is executed again over the same directory: a new analyzer or
\* generator is constructed, with empty collections and counters; the output
\* files of the run before stay where they are until they are written again
Rerun ==
    /\ pc \in {"done", "aborted"}
    /\ Len(previous) + 1 < MaxRuns
    /\ previous' = Append(previous, Outcome)
    /\ cursor' = 1
    /\ pc' = "run"
    /\ error' = "none"
    /\ results' = <<>>
    /\ stats' = InitStats
    /\ all_messages' = <<>>
    /\ messages_by_date' = <<>>
    /\ UNCHANGED <<variant, target_username, target_discriminator, days, dir,
                   report, archive, weekly, probe, verdict>>

----------------------------------------------------------------------------
(* Specifications                                                          *)

\* the state after construction, for a directory d and a window of n days
Start(v, d, n) ==
    /\ variant = v
    /\ target_username = IF v = "analyzer" THEN InitTargetUsername(DirvineCaps) ELSE Dirvine
    /\ target_discriminator = None
    /\ days = n
    /\ dir = d
    /\ cursor = 1
    /\ pc = "run"
    /\ error = "none"
    /\ results = <<>>
    /\ stats = InitStats
    /\ all_messages = <<>>
    /\ messages_by_date = <<>>
    /\ report = None
    /\ archive = None
    /\ weekly = None
    /\ probe = Author(None, None)
    /\ verdict = None
    /\ previous = <<>>

\* no message of the directory is a reply to itself
NoSelfReference(d) ==
    \A i \in 1..Len(d) : \A j \in 1..Len(d[i].messages) :
        d[i].messages[j].reference # Some(d[i].messages[j].id)

\* the directories of a family of exports: every shape, filled with the
\* bodies given for each window
StartFamily(variants, names, kinds, bodiesOf) ==
    \E v \in variants, n \in DOMAIN bodiesOf, shape \in DirShapes(names, kinds) :
        \E bodies \in [1..MsgsBefore(shape, Len(shape)) -> bodiesOf[n]] :
            /\ NoSelfReference(MakeDir(shape, bodies))
            /\ Start(v, MakeDir(shape, bodies), n)

Init ==
    \E v \in {"analyzer", "digest"}, shape \in DirShapes({"general"}, {"object"}) :
        \E bodies \in [1..MsgsBefore(shape, Len(shape)) -> CorrelationBodies] :
            \E k \in 0..Len(bodies) :
                /\ NoSelfReference(MakeDir(shape, bodies))
                /\ Start(v, MakeDir(shape, WithMalformed(bodies, k)), DefaultDays)

Next ==
    \/ ExtractFromFile
    \/ GenerateReport
    \/ ProcessFile
    \/ GenerateCompleteArchive
    \/ GenerateWeeklyDigest

\* a run of either script over a directory of exports whose messages differ in
\* author and reply reference, at most one of them with a malformed timestamp
Spec == Init /\ [][Next]_vars

ErrorInit ==
    StartFamily({"analyzer", "digest"}, {"general"}, AllKinds,
                [n \in {DefaultDays} |-> ErrorBodies])

\* a run of either script over a directory some of whose files cannot be
\* read, do not parse, or are no export object
ErrorSpec == ErrorInit /\ [][Next]_vars

\* a window other than the default
ShortWindow == 1

\* the analyzer groups by channel and has no window; the digest does not
\* group by channel and has a window
TimelineInit ==
    \/ StartFamily({"analyzer"}, {"dev", "general"}, {"object"},
                   [n \in {DefaultDays} |-> TimelineBodies(n)])
    \/ StartFamily({"digest"}, {"general"}, {"object"},
                   [n \in {DefaultDays, ShortWindow} |-> TimelineBodies(n)])

\* a run of the analyzer over exports of one or two channels, or of the digest
\* with the default or a shorter window, whose messages differ in their timestamp
TimelineSpec == TimelineInit /\ [][Next]_vars

QuietInit ==
    \/ StartFamily({"analyzer"}, {"dev", "general"}, {"object"},
                   [n \in {DefaultDays} |-> QuietBodies(n)])
    \/ StartFamily({"digest"}, {"general"}, {"object"},
                   [n \in {DefaultDays} |-> QuietBodies(n)])

\* a run of either script over exports some of whose files hold no message by
\* or replying to the target, and whose messages may all be older than the
\* window
QuietSpec == QuietInit /\ [][Next]_vars

RerunInit ==
    StartFamily({"analyzer", "digest"}, {"general"}, {"object"},
                [n \in {DefaultDays} |-> TimelineBodies(n) \cup {ReplyBody}])

RerunNext == Next \/ Rerun

\* runs of either script, one after the other, over the same directory
RerunSpec == RerunInit /\ [][RerunNext]_vars

----------------------------------------------------------------------------
(* The matchers on their own                                               *)

\* the longest user name handed to the matchers
MaxNameLen == 2

Names == UNION {[1..n -> Alphabet] : n \in 1..MaxNameLen}

\* the discriminator filters: none, the empty string, and two values
Filters == {None, Some(""), Some("1234"), Some("0000")}

\* the author dictionaries: with or without a name, with or without a
\* discriminator
ProbeAuthors ==
    [name : {None} \cup {Some(n) : n \in Names},
     discriminator : {None, Some("1234"), Some("0000")}]

\* DiscordMessageAnalyzer(raw, filter) or DirvineDigestGenerator(...), and an
\* author to ask about
MatchInit ==
    /\ \/ /\ variant = "analyzer"
          /\ \E raw \in Names :
                /\ target_username = InitTargetUsername(raw)
                /\ \E a \in ProbeAuthors : probe = [author |-> a, raw |-> raw]
          /\ target_discriminator \in Filters
       \/ /\ variant = "digest"
          /\ target_username = Dirvine
          /\ target_discriminator = None
          /\ \E a \in ProbeAuthors : probe = [author |-> a, raw |-> Dirvine]
    /\ days = DefaultDays
    /\ dir = <<>>
    /\ cursor = 1
    /\ pc = "probe"
    /\ error = "none"
    /\ results = <<>>
    /\ stats = InitStats
    /\ all_messages = <<>>
    /\ messages_by_date = <<>>
    /\ report = None
    /\ archive = None
    /\ weekly = None
    /\ verdict = None
    /\ previous = <<>>

\* a call of matches_target_user(author)
MatchTargetUser ==
    /\ variant = "analyzer"
    /\ pc = "probe"
    /\ verdict' = Some(matches_target_user(probe.author))
    /\ pc' = "probed"
    /\ UNCHANGED <<variant, target_username, target_discriminator, days, dir, cursor,
                   error, results, stats, all_messages, messages_by_date, report,
                   archive, weekly, probe, previous>>

\* the digest's test of an author in _process_file
MatchDirvine ==
    /\ variant = "digest"
    /\ pc = "probe"
    /\ verdict' = Some(is_dirvine(probe.author))
    /\ pc' = "probed"
    /\ UNCHANGED <<variant, target_username, target_discriminator, days, dir, cursor,
                   error, results, stats, all_messages, messages_by_date, report,
                   archive, weekly, probe, previous>>

MatchNext == MatchTargetUser \/ MatchDirvine

\* the matchers applied to every author and configuration within the bounds
MatchSpec == MatchInit /\ [][MatchNext]_vars

----------------------------------------------------------------------------
(* Claims about the matchers (MatchSpec)                                   *)

\* the author of the probe has a name that equals the configured target name
\* up to letter case
ProbeNameEqualUpToCase ==
    /\ probe.author.name # None
    /\ EqualUpToCase(Get(probe.author.name, <<>>), probe.raw)

\* what the discriminator filter says of the probe once an author without
\* discriminator is read as "0000"
ProbeDiscriminatorAdmitted ==
    Truthy(target_discriminator)
        => Get(probe.author.discriminator, "0000") = Get(target_discriminator, "")

\* C8: author matching is case-insensitive in both variants.  Whenever the
\* author's name and the configured target name are equal up to letter case,
\* the name test passes: the digest treats the author as the target, and the
\* analyzer's answer is that of its discriminator filter alone.
C8_CaseInsensitiveMatch ==
    (pc = "probed" /\ ProbeNameEqualUpToCase)
        => verdict = Some(ProbeDiscriminatorAdmitted)

\* an author spelt "D." is matched by the analyzer configured with "d." or the
\* like: both differ from each other and the configured name has a capital
C8_Witness ==
    /\ pc = "probed"
    /\ variant = "analyzer"
    /\ ProbeNameEqualUpToCase
    /\ Get(probe.author.name, <<>>) # probe.raw
    /\ probe.raw # Lower(probe.raw)
    /\ Get(probe.author.name, <<>>) # Lower(probe.raw)
    /\ verdict = Some(TRUE)

\* C9 as stated: matches_target_user(author) is true iff the name equals the
\* target name case-insensitively and, only when a discriminator filter was
\* supplied, the author's discriminator equals that filter.
C9_AsStated ==
    (pc = "probed" /\ variant = "analyzer")
        => verdict = Some(/\ ProbeNameEqualUpToCase
                          /\ Truthy(target_discriminator)
                                => probe.author.discriminator = target_discriminator)

\* C9 (amended): matches_target_user(author) is true iff the name equals the
\* target name case-insensitively and, only when a non-empty discriminator
\* filter was supplied, the author's discriminator, read as "0000" when the
\* author has none, equals that filter.  Without a filter the discriminator
\* has no influence.
C9_MatchesTargetUser ==
    (pc = "probed" /\ variant = "analyzer")
        => verdict = Some(ProbeNameEqualUpToCase /\ ProbeDiscriminatorAdmitted)

\* an author without discriminator is matched under the filter "0000"
C9_Witness ==
    /\ pc = "probed"
    /\ variant = "analyzer"
    /\ target_discriminator = Some("0000")
    /\ probe.author.discriminator = None
    /\ ProbeNameEqualUpToCase
    /\ verdict = Some(TRUE)

----------------------------------------------------------------------------
(* Claims about the selection of messages (Spec)                           *)

\* the files whose processing has ended
Processed == 1..(cursor - 1)

\* the places of the entries collected for the message id of file i
EntriesOf(i, id) ==
    IF variant = "analyzer"
    THEN {<<k, n>> \in UNION {{k} \X (1..Len(results[k])) : k \in DOMAIN results} :
            results[k][n].channel_id = i /\ results[k][n].message_id = id}
    ELSE {<<"all_messages", n>> : n \in {x \in 1..Len(all_messages) :
            all_messages[x].channel_id = i /\ all_messages[x].message_id = id}}

\* the entry at a place
EntryAt(place) ==
    IF variant = "analyzer" THEN results[place[1]][place[2]] ELSE all_messages[place[2]]

\* the message is authored by the target user: its author's name is the
\* target's up to letter case (and passes the discriminator filter, if any)
ByTarget(m) ==
    /\ m.author.name # None
    /\ EqualUpToCase(Get(m.author.name, <<>>), target_username)
    /\ Truthy(target_discriminator)
          => Get(m.author.discriminator, "0000") = Get(target_discriminator, "")

\* the message has a reference whose messageId is the id of a message of the
\* same file f that the target authored
RepliesToTarget(f, m) ==
    /\ m.reference # None
    /\ \E q \in 1..Len(f.messages) :
          /\ f.messages[q].id = Get(m.reference, 0)
          /\ ByTarget(f.messages[q])

\* the timestamp is present and ISO-8601
WellFormed(m) == m.timestamp # None /\ Get(m.timestamp, TsBad).form # "bad"

\* C1 as stated: a message of a processed file has an entry iff the target
\* authored it or it replies to a message the target authored in the same file.
C1_AsStated ==
    \A i \in Processed : \A j \in 1..Len(dir[i].messages) :
        LET m == dir[i].messages[j]
        IN  (EntriesOf(i, m.id) # {}) <=> (ByTarget(m) \/ RepliesToTarget(dir[i], m))

\* C1 (amended): a message of a processed file has an entry iff the target
\* authored it or it replies to a message the target authored in the same
\* file, and, in the digest variant, its timestamp parses.  A reference to an
\* id the target authored in another file only never causes inclusion.
C1_Inclusion ==
    \A i \in Processed : \A j \in 1..Len(dir[i].messages) :
        LET m == dir[i].messages[j]
        IN  (EntriesOf(i, m.id) # {})
                <=> /\ ByTarget(m) \/ RepliesToTarget(dir[i], m)
                    /\ variant = "digest" => WellFormed(m)

\* both files are processed; the second holds a message of another user that
\* refers to an id the target authored in the first file only, and no entry
\* was made for it, while the target's message of the first file has one
C1_Witness ==
    /\ Len(dir) = 2
    /\ cursor = 3
    /\ \E j \in 1..Len(dir[2].messages), q \in 1..Len(dir[1].messages) :
          LET m == dir[2].messages[j]
          IN  /\ ~ByTarget(m)
              /\ m.reference = Some(dir[1].messages[q].id)
              /\ ByTarget(dir[1].messages[q])
              /\ ~RepliesToTarget(dir[2], m)
              /\ EntriesOf(2, m.id) = {}
              /\ EntriesOf(1, dir[1].messages[q].id) # {}

\* an export file is valid: an export object whose timestamps are ISO-8601
ValidFile(f) ==
    /\ f.kind = "object"
    /\ \A j \in 1..Len(f.messages) : WellFormed(f.messages[j])

\* C2: for all valid export files, every message authored by the target has
\* exactly one entry, however many messages refer to it and whether or not it
\* is itself a reply.
C2_TargetExactlyOnce ==
    \A i \in Processed :
        ValidFile(dir[i]) =>
            \A j \in 1..Len(dir[i].messages) :
                ByTarget(dir[i].messages[j])
                    => Cardinality(EntriesOf(i, dir[i].messages[j].id)) = 1

\* a processed valid file with a message of the target that is a reply and
\* that two other messages refer to, with its one entry
C2_Witness ==
    \E i \in Processed : \E j \in 1..Len(dir[i].messages) :
        LET f == dir[i]
            m == f.messages[j]
        IN  /\ ValidFile(f)
            /\ ByTarget(m)
            /\ m.reference # None
            /\ Cardinality({q \in 1..Len(f.messages) :
                              q # j /\ f.messages[q].reference = Some(m.id)}) = 2
            /\ Cardinality(EntriesOf(i, m.id)) = 1

\* the entry is classified as a reply to the target
ClassifiedReply(e) ==
    IF variant = "analyzer" THEN e.type = "reply_to_target" ELSE e.is_reply_to_dirvine

\* C3 as stated: every message of a processed file that refers to a message
\* the target authored in the same file has exactly one entry, classified as a
\* reply to the target, also when the target authored the replying message.
C3_AsStated ==
    \A i \in Processed : \A j \in 1..Len(dir[i].messages) :
        LET m == dir[i].messages[j]
        IN  RepliesToTarget(dir[i], m)
                => /\ Cardinality(EntriesOf(i, m.id)) = 1
                   /\ \A place \in EntriesOf(i, m.id) : ClassifiedReply(EntryAt(place))

\* C3 (amended): every message of a processed file that refers to a message
\* the target authored in the same file has exactly one entry (in the digest:
\* none when its timestamp does not parse).  The entry is classified as a
\* reply to the target, except that the analyzer types a reply authored by the
\* target itself 'posted_by_target' and keeps the reference in replying_to.
C3_ReplyClassification ==
    \A i \in Processed : \A j \in 1..Len(dir[i].messages) :
        LET m == dir[i].messages[j]
            entries == EntriesOf(i, m.id)
        IN  RepliesToTarget(dir[i], m)
                => IF variant = "digest" /\ ~WellFormed(m)
                   THEN entries = {}
                   ELSE /\ Cardinality(entries) = 1
                        /\ \A place \in entries :
                              IF variant = "analyzer" /\ ByTarget(m)
                              THEN /\ EntryAt(place).type = "posted_by_target"
                                   /\ EntryAt(place).replying_to = m.reference
                              ELSE ClassifiedReply(EntryAt(place))

\* the analyzer has processed a file in which another user replies to a later
\* message of the target; the reply's one entry is typed reply_to_target
C3_Witness ==
    /\ variant = "analyzer"
    /\ \E i \in Processed : \E j \in 1..Len(dir[i].messages) :
          LET m == dir[i].messages[j]
          IN  /\ RepliesToTarget(dir[i], m)
              /\ ~ByTarget(m)
              /\ Get(m.reference, 0) > m.id
              /\ \E place \in EntriesOf(i, m.id) :
                    EntryAt(place).type = "reply_to_target"

----------------------------------------------------------------------------
(* Claims about failures (TimelineSpec, ErrorSpec)                         *)

\* some message of the directory has a missing or malformed timestamp
HasMalformedTimestamp ==
    \E i \in 1..Len(dir) : \E j \in 1..Len(dir[i].messages) : ~WellFormed(dir[i].messages[j])

\* C4 as stated: a message whose timestamp is missing or malformed never
\* aborts the run; the remaining records and files are processed and the report
\* is generated, the sort of that record with the others included, without an
\* unhandled error.
C4_AsStated ==
    HasMalformedTimestamp => (error = "none" /\ pc # "aborted")

\* C5 as stated: a file that cannot be read, does not parse as JSON, or is not
\* an export object is skipped: the accumulated results and counters stay as
\* they were and the scan goes on with the next file.
C5_AsStated ==
    [][(pc = "run" /\ cursor <= Len(dir) /\ dir[cursor].kind # "object")
          => /\ pc' = "run"
             /\ cursor' = cursor + 1
             /\ UNCHANGED <<results, stats, all_messages, messages_by_date>>]_vars

----------------------------------------------------------------------------
(* Claims about the order and the window of the reports (TimelineSpec)     *)

\* the groups of the reports written so far: the channels of the analyzer's
\* report, the complete archive, the weekly digest
Groups ==
    {Get(report, [groups |-> <<>>]).groups[i].messages :
        i \in 1..Len(Get(report, [groups |-> <<>>]).groups)}
    \cup archive \cup weekly

\* the resolved timestamp of an entry as a number of seconds
Instant(e) == e.datetime.day * 86400 + e.datetime.sec

\* entry a was collected before entry b: files are read in the order of the
\* scan and the messages of a file in their order
CollectedBefore(a, b) ==
    \/ a.channel_id < b.channel_id
    \/ a.channel_id = b.channel_id /\ a.message_id < b.message_id

\* C6: in every generated report the entries of a group are in ascending
\* order of their resolved timestamp, and entries with equal timestamps are in
\* the order in which they were collected.
C6_SortedStable ==
    \A g \in Groups : \A a, b \in 1..Len(g) :
        a < b => \/ Instant(g[a]) < Instant(g[b])
                 \/ Instant(g[a]) = Instant(g[b]) /\ CollectedBefore(g[a], g[b])

\* a group of three entries, two of them with equal timestamps, that the sort
\* had to reorder
C6_Witness ==
    \E g \in Groups :
        /\ Len(g) >= 3
        /\ \E a, b \in 1..Len(g) : a < b /\ Instant(g[a]) = Instant(g[b])
        /\ \E a, b \in 1..Len(g) : a < b /\ CollectedBefore(g[b], g[a])

\* C7 as stated: of two entries of a group, A precedes B iff A.timestamp <= B.timestamp.
C7_AsStated ==
    \A g \in Groups : \A a, b \in 1..Len(g) :
        a # b => ((a < b) <=> (Instant(g[a]) <= Instant(g[b])))

\* C7 (amended): of two entries of a group, A precedes B if A.timestamp <
\* B.timestamp, and only if A.timestamp <= B.timestamp.
C7_Chronological ==
    \A g \in Groups : \A a, b \in 1..Len(g) :
        /\ Instant(g[a]) < Instant(g[b]) => a < b
        /\ a < b => Instant(g[a]) <= Instant(g[b])

\* a group in which an entry of an earlier day, collected later and at a later
\* time of day, comes first
C7_Witness ==
    \E g \in Groups : \E a, b \in 1..Len(g) :
        /\ a < b
        /\ g[a].datetime.day < g[b].datetime.day
        /\ g[a].datetime.sec > g[b].datetime.sec
        /\ CollectedBefore(g[b], g[a])

\* the collected entries dated within the window: date >= current date - N
InWindow == {n \in 1..Len(all_messages) : all_messages[n].date >= Now.day - days}

\* C10: generate_weekly_digest with window N keeps exactly the collected
\* entries whose date is at least the current date minus N days: none is
\* dropped, none older is kept, and nothing is written when there is none.
C10_WeeklyWindow ==
    (variant = "digest" /\ pc = "done")
        => IF InWindow = {} THEN weekly = None
           ELSE /\ weekly # None
                /\ Len(Get(weekly, <<>>)) = Cardinality(InWindow)
                /\ {Get(weekly, <<>>)[w] : w \in 1..Len(Get(weekly, <<>>))}
                     = {all_messages[n] : n \in InWindow}

\* a digest with the default window of 7 days that keeps an entry dated
\* exactly 7 days before the run and leaves out one dated 8 days before it
C10_Witness ==
    /\ variant = "digest"
    /\ pc = "done"
    /\ days = DefaultDays
    /\ \E w \in 1..Len(Get(weekly, <<>>)) : Get(weekly, <<>>)[w].date = Now.day - days
    /\ \E n \in 1..Len(all_messages) :
          /\ all_messages[n].date = Now.day - days - 1
          /\ \A w \in 1..Len(Get(weekly, <<>>)) : Get(weekly, <<>>)[w] # all_messages[n]

----------------------------------------------------------------------------
(* Claims about the quoted context of the digest (Spec)                    *)

\* the message an entry of the digest was made for
MessageOf(e) == dir[e.channel_id].messages[e.message_id]

\* the messages of the entry's file whose id is the entry's reference id
Referenced(e) ==
    LET f == dir[e.channel_id]
    IN  {f.messages[q] : q \in {x \in 1..Len(f.messages) :
                                  MessageOf(e).reference = Some(f.messages[x].id)}}

\* the entry carries the message orig as its quoted context, and it is
\* written under the given label before the entry's own content
Quotes(e, orig, label) ==
    /\ e.replied_to_msg = Some(orig)
    /\ WriteMessage(e).quote # None
    /\ Get(WriteMessage(e).quote, <<>>).label = label
    /\ Get(WriteMessage(e).quote, <<>>).content = orig

\* C11 as stated: in the digest, the quoted context of every entry classified
\* as a reply to the target is the message of the same file whose id is the
\* entry's reference id, that message is authored by the target, and it is
\* rendered as "dirvine said"; when no message has that id the context is
\* omitted and the entry is kept.
C11_AsStated ==
    variant = "digest" =>
        \A n \in 1..Len(all_messages) :
            LET e == all_messages[n]
            IN  e.is_reply_to_dirvine
                    => IF Referenced(e) = {}
                       THEN e.replied_to_msg = None /\ WriteMessage(e).quote = None
                       ELSE \A orig \in Referenced(e) :
                               ByTarget(orig) /\ Quotes(e, orig, "dirvine said")

\* C11 (amended): in the digest, the quoted context of every entry classified
\* as a reply to the target is the message of the same file whose id is the
\* entry's reference id, and that message is authored by the target.  It is
\* rendered as "dirvine said" when another user wrote the reply, and as
\* "Replying to <the target's name>" when the target wrote the reply itself.
\* When no message has that id the context is omitted and the entry is kept.
C11_QuotedContext ==
    variant = "digest" =>
        \A n \in 1..Len(all_messages) :
            LET e == all_messages[n]
            IN  e.is_reply_to_dirvine
                    => IF Referenced(e) = {}
                       THEN e.replied_to_msg = None /\ WriteMessage(e).quote = None
                       ELSE \A orig \in Referenced(e) :
                               /\ ByTarget(orig)
                               /\ IF e.is_dirvine
                                  THEN /\ Quotes(e, orig, "Replying to")
                                       /\ Get(WriteMessage(e).quote, <<>>).author
                                            = Get(orig.author.name, Unknown)
                                  ELSE Quotes(e, orig, "dirvine said")

\* the digest has an entry for a reply of another user to the second message
\* of its file, a message of the target, and quotes that message as "dirvine
\* said"
C11_Witness ==
    /\ variant = "digest"
    /\ \E n \in 1..Len(all_messages) :
          LET e == all_messages[n]
          IN  /\ e.is_reply_to_dirvine
              /\ ~e.is_dirvine
              /\ MessageOf(e).reference = Some(2)
              /\ \E orig \in Referenced(e) :
                    ByTarget(orig) /\ Quotes(e, orig, "dirvine said")

----------------------------------------------------------------------------
(* Claims about files and runs without entries (QuietSpec)                 *)

\* the file holds no message by the target and none replying to the target
Quiet(f) ==
    \A j \in 1..Len(f.messages) :
        ~ByTarget(f.messages[j]) /\ ~RepliesToTarget(f, f.messages[j])

\* the entries held in a table of lists (results, messages_by_date)
EntriesIn(table) == UNION {{table[k][n] : n \in 1..Len(table[k])} : k \in DOMAIN table}

\* all the entries collected so far
Collected ==
    EntriesIn(results) \cup EntriesIn(messages_by_date)
        \cup {all_messages[n] : n \in 1..Len(all_messages)}

\* C12: a file with zero messages by or replying to the target creates no
\* group and no entry (every channel key of results and every date of
\* messages_by_date comes from a file that has such a message, and no
\* collected entry comes from a file without) and does not make the run
\* error; when the collected result set is empty, or no entry falls in the
\* window of the weekly digest, the generator ends normally and writes no
\* output file.
C12_NoOp ==
    /\ error = "none"
    /\ pc # "aborted"
    /\ \A i \in Processed : Quiet(dir[i]) => \A e \in Collected : e.channel_id # i
    /\ \A k \in DOMAIN results :
          /\ results[k] # <<>>
          /\ \E i \in Processed : dir[i].channel_name = k /\ ~Quiet(dir[i])
    /\ \A k \in DOMAIN messages_by_date : messages_by_date[k] # <<>>
    /\ (variant = "analyzer" /\ pc = "done" /\ DOMAIN results = {}) => report = None
    /\ (variant = "digest" /\ pc \in {"weekly", "done"} /\ all_messages = <<>>)
          => archive = None
    /\ (variant = "digest" /\ pc = "done" /\ InWindow = {}) => weekly = None

\* the digest has ended a run over two files, the first of them with a
\* message but none by or replying to the target; the archive is written, and
\* since its entries are all older than the window no weekly digest is
C12_Witness ==
    /\ variant = "digest"
    /\ pc = "done"
    /\ Len(dir) = 2
    /\ dir[1].messages # <<>>
    /\ Quiet(dir[1])
    /\ all_messages # <<>>
    /\ archive # None
    /\ weekly = None

----------------------------------------------------------------------------
(* Claims about repeated runs (RerunSpec)                                  *)

\* no entry occurs twice in a group of a written report
NoDuplicates ==
    \A g \in Groups : \A a, b \in 1..Len(g) : a # b => g[a] # g[b]

----------------------------------------------------------------------------
(* Claims about what report generation changes (TimelineSpec)              *)

\* the state a step of generate_report, generate_complete_archive or
\* generate_weekly_digest starts from: the scan has ended, the run has not
Rendering == cursor > Len(dir) /\ pc \in {"run", "weekly"}

\* two lists hold the same entries, each once
SameEntries(a, b) ==
    /\ Len(a) = Len(b)
    /\ {a[n] : n \in 1..Len(a)} = {b[n] : n \in 1..Len(b)}
    /\ Cardinality({a[n] : n \in 1..Len(a)}) = Len(a)

\* C14 as stated: report generation is a pure read of the accumulated state:
\* the three generators do not add, remove, modify or reorder the entries held
\* in results, all_messages and messages_by_date and do not change stats.
C14_AsStated ==
    [][Rendering => UNCHANGED <<results, stats, all_messages, messages_by_date>>]_vars

\* C14 (amended): generate_complete_archive and generate_weekly_digest are
\* pure reads of the accumulated state.  generate_report changes neither
\* stats nor the channels of results nor the entries held for a channel, but
\* it sorts the list of each channel in place: when it ends normally every
\* stored list is in ascending order of the resolved timestamp, entries with
\* equal timestamps in their stored order.
C14_PureRead ==
    [][Rendering =>
         /\ UNCHANGED <<stats, all_messages, messages_by_date>>
         /\ DOMAIN results' = DOMAIN results
         /\ \A k \in DOMAIN results : SameEntries(results[k], results'[k])
         /\ variant = "digest" => UNCHANGED results
         /\ pc' = "done" =>
               \A k \in DOMAIN results :
                  \A a, b \in 1..Len(results'[k]) :
                     a < b => \/ Instant(results'[k][a]) < Instant(results'[k][b])
                              \/ /\ Instant(results'[k][a]) = Instant(results'[k][b])
                                 /\ CollectedBefore(results'[k][a], results'[k][b])]_vars

\* the analyzer has written its report; the stored list of a channel holds
\* the three entries that were collected for it, no longer in the order in
\* which they were collected, and the counters are those of the collection
C14_Witness ==
    /\ variant = "analyzer"
    /\ pc = "done"
    /\ report # None
    /\ stats.total_messages = 3
    /\ \E k \in DOMAIN results :
          /\ Len(results[k]) = 3
          /\ \E a, b \in 1..3 : a < b /\ CollectedBefore(results[k][b], results[k][a])

----------------------------------------------------------------------------
(* Claims about the target's own replies in the digest (Spec)              *)

\* C15 as stated: in the archive and the weekly digest, every entry authored
\* by the target whose message refers to a message of the same file, whoever
\* authored that message, is written with the quoted context "Replying to
\* <author>" and the content of the referenced message before its own content.
C15_AsStated ==
    \A g \in archive \cup weekly : \A n \in 1..Len(g) :
        (g[n].is_dirvine /\ Referenced(g[n]) # {})
            => \A orig \in Referenced(g[n]) :
                  WriteMessage(g[n]).quote
                      = Some([label   |-> "Replying to",
                              author  |-> Get(orig.author.name, Unknown),
                              content |-> orig])

----------------------------------------------------------------------------
(* Claims about the counters of the analyzer (ErrorSpec)                   *)

\* the places of the entries of results whose type is one of types
PlacesOfType(types) ==
    UNION {{<<k, n>> : n \in {x \in 1..Len(results[k]) : results[k][x].type \in types}} :
           k \in DOMAIN results}

\* the counters of the messages agree with each other and with results
CountersAgree ==
    /\ stats.total_messages = stats.posts_by_user + stats.replies_to_user
    /\ stats.total_messages
         = Cardinality(UNION {{k} \X (1..Len(results[k])) : k \in DOMAIN results})
    /\ stats.posts_by_user = Cardinality(PlacesOfType({"posted_by_target"}))
    /\ stats.replies_to_user = Cardinality(PlacesOfType({"reply_to_target"}))

\* extract_from_file was called for the i-th file: the call returned, or it is
\* the call that ended the run
Called(i) == i < cursor \/ (i = cursor /\ pc = "aborted" /\ error = "AttributeError")

\* the files extract_from_file was called for and that open() and json.load
\* loaded without an error
LoadedFiles ==
    {i \in 1..Len(dir) : Called(i) /\ dir[i].kind \in {"object", "nonobject"}}

\* C16 as stated: after any sequence of extract_from_file calls,
\* total_messages = posts_by_user + replies_to_user = the number of entries
\* over all channels of results, posts_by_user and replies_to_user are the
\* numbers of entries of type 'posted_by_target' and 'reply_to_target', and
\* files_processed is the number of files loaded without a read or parse error.
C16_AsStated ==
    variant = "analyzer" =>
        /\ CountersAgree
        /\ stats.files_processed = Cardinality(LoadedFiles)

====
